---- MODULE Spec2Model ----
(***************************************************************************)
(* AWS Secure Network Builder: the deployment / teardown orchestrator of   *)
(* src/builder.py with the manager classes of src/modules/*.py.            *)
(*                                                                         *)
(* One behaviour is one invocation of the program (main): a deployment     *)
(* (dry-run or real) or a teardown; an invocation that wrote a state file  *)
(* can be followed by one teardown invocation reading that file.           *)
(* Every provider (boto3 EC2) call is one step; its outcome                *)
(* is chosen nondeterministically.  The provider itself is a recording     *)
(* fake: it hands out fresh identifiers, remembers which resources are     *)
(* live and logs every call with its result.                               *)
(***************************************************************************)
EXTENDS Integers, Sequences, FiniteSets, TLC

\* ------------------------------------------------------------------ bounds

MaxSubnets == 2
MaxGroups == 2
MaxRules == 2

\* ------------------------------------------------------- values and helpers

\* Python None for an identifier (state['vpc_id'] starts as None).
NoId == 0

\* dict.get / `in` / item assignment on an insertion-ordered dict, kept as a
\* sequence of [k, v] entries: assigning an existing key replaces its value in
\* place, assigning a new key appends.
DictHas(d, key) == \E n \in 1..Len(d) : d[n].k = key

DictGet(d, key, default) ==
    IF DictHas(d, key)
    THEN d[CHOOSE n \in 1..Len(d) : d[n].k = key].v
    ELSE default

DictSet(d, key, val) ==
    IF DictHas(d, key)
    THEN [n \in 1..Len(d) |-> IF d[n].k = key THEN [k |-> key, v |-> val] ELSE d[n]]
    ELSE Append(d, [k |-> key, v |-> val])

DictKeys(d) == {d[n].k : n \in 1..Len(d)}

\* ------------------------------------------------------------- CIDR blocks

\* A CIDR string "o1.o2.o3.o4/len" as its octets and prefix length: two
\* network blocks, a block with host bits set, an octet out of range, a prefix
\* length out of range.
Cidrs ==
    {[addr |-> <<10, 0, 0, 0>>, len |-> 16],
     [addr |-> <<10, 0, 1, 0>>, len |-> 24],
     [addr |-> <<10, 0, 1, 5>>, len |-> 24],
     [addr |-> <<10, 0, 256, 0>>, len |-> 24],
     [addr |-> <<10, 0, 0, 0>>, len |-> 33]}

AddrInt(a) == ((a[1] * 256 + a[2]) * 256 + a[3]) * 256 + a[4]

\* ipaddress.IPv4Network(cidr_block), strict: every octet in 0..255, the prefix
\* length in 0..32 and no host bit set; a ValueError otherwise.
validate_cidr_lax(c) ==
    /\ \A n \in 1..4 : c.addr[n] \in 0..255
    /\ c.len \in 0..32

validate_cidr(c) ==
    /\ \A n \in 1..4 : c.addr[n] \in 0..255
    /\ c.len \in 0..32
    /\ AddrInt(c.addr) % (2 ^ (32 - c.len)) = 0

\* ----------------------------------------------------------- configuration

SeqsUpTo(S, n) == UNION {[1..m -> S] : m \in 0..n}

SubnetNames == {"a", "b"}
\* subnet_config['type'] is any string of the YAML file; load_config checks
\* only that the four top-level fields are present.
SubnetTypes == {"public", "private", "isolated"}

\* The block a real deployment is given; whether the provider accepts a block
\* is the outcome of the create call.
NetworkCidr == [addr |-> <<10, 0, 0, 0>>, len |-> 16]
SubnetCidr == [addr |-> <<10, 0, 1, 0>>, len |-> 24]

GroupNames == <<"web", "db", "app", "cache">>
IngressRule == [protocol |-> "tcp", from_port |-> 443, to_port |-> 443]

\* security_groups: group name -> list of rules, a dict in file order.
GroupConfigs ==
    {[n \in 1..Len(rs) |-> [k |-> GroupNames[n], v |-> rs[n]]] :
        rs \in SeqsUpTo(SeqsUpTo({IngressRule}, MaxRules), MaxGroups)}

SubnetLists ==
    SeqsUpTo([name : SubnetNames, cidr : {SubnetCidr}, type : SubnetTypes], MaxSubnets)

\* One public and one private subnet, and one group with one rule.
TwoTierSubnets ==
    <<[name |-> "a", cidr |-> SubnetCidr, type |-> "public"],
      [name |-> "b", cidr |-> SubnetCidr, type |-> "private"]>>
OneGroup == <<[k |-> GroupNames[1], v |-> <<IngressRule>>]>>

\* Configurations of a real deployment.  The security-group step reads nothing
\* of the subnets and the subnet and NAT steps nothing of the groups, so every
\* subnet list is drawn against no group and one group, and every group
\* configuration against no subnet and the two-tier pair.
DeployConfigs ==
    [cidr : {NetworkCidr},
     subnets : SubnetLists,
     nat_enabled : BOOLEAN,
     security_groups : {<<>>, OneGroup}]
    \cup
    [cidr : {NetworkCidr},
     subnets : {<<>>, TwoTierSubnets},
     nat_enabled : BOOLEAN,
     security_groups : GroupConfigs]

\* Configurations of a dry run, which reads the CIDR fields alone.
DryRunConfigs ==
    [cidr : Cidrs,
     subnets : SeqsUpTo([name : {"a"}, cidr : Cidrs, type : {"public"}], MaxSubnets),
     nat_enabled : {FALSE},
     security_groups : {<<>>}]

\* ------------------------------------------------------------------- state

VARIABLES
    args,       \* the command line: which of --teardown, --config, --state-file
    configFile, \* the file at the path the builder is given: present? which
                \* required fields does it lack?
    exitCode,   \* the exit status of the invocation, Running until it ends
    tdStarts,   \* for each teardown invocation so far, the number of provider
                \* calls on record when it started
    peer,       \* a second, concurrent invocation while the other one runs:
                \* its pc, loc, state, result, exitCode; NoPeer when there is none
    dry_run,    \* --dry-run, self.dry_run
    config,     \* the content of the configuration file, self.config once loaded
    pc,         \* the next provider call (or control point) of the invocation
    loc,        \* locals: id, aux (identifiers in hand); i, j, k (loop items done)
    state,      \* self.state of the deploying builder
    stateFile,  \* output/<vpc_name>-state.json: NoFile or the dumped state
    live,       \* the provider's live resources, by kind
    nextId,     \* the provider's next fresh identifier
    calls,      \* every provider call issued so far, with its result
    result,     \* deploy()'s return value "True" or "False": "none" until it returns
    examined,   \* the values validate_cidr was applied to, in order
    loaded,     \* teardown()'s local `state`, read from the state file
    tdResult,   \* teardown()'s return value, likewise
    warnings    \* every logger.warning issued so far, in order

launchVars == <<args, configFile, tdStarts, peer>>

vars == <<launchVars, exitCode, dry_run, config, pc, loc, state, stateFile, live,
          nextId, calls, result, examined, loaded, tdResult, warnings>>

NoFile == [exists |-> FALSE]
NoNat == [id |-> NoId, elastic_ip |-> NoId]

\* AWSNetworkBuilder.__init__: the empty state record.
EmptyState ==
    [vpc_id |-> NoId,
     subnets |-> <<>>,
     security_groups |-> <<>>,
     route_tables |-> <<>>,
     gateways |-> [internet_gateway |-> NoId, nat_gateway |-> NoNat]]

NoLocals == [id |-> NoId, aux |-> NoId, i |-> 0, j |-> 0, k |-> 0]

NothingLive ==
    [vpc |-> {}, igw |-> {}, attached |-> {}, rtb |-> {}, subnet |-> {},
     eip |-> {}, nat |-> {}, natAddr |-> {}, sg |-> {}, rules |-> {}]

\* The process has not exited.
Running == -1

\* argparse: the flags main() reads.  Deployment mode never reads --state-file.
DeployLaunches == [teardown : {FALSE}, config : BOOLEAN, state_file : {FALSE}]
TeardownLaunches == [teardown : {TRUE}, config : BOOLEAN, state_file : BOOLEAN]

\* load_config's required_fields, in the order they are checked.
RequiredFields == <<"vpc_name", "cidr", "region", "subnets">>

AbsentFile == [exists |-> FALSE, missing |-> {}]
CompleteFile == [exists |-> TRUE, missing |-> {}]
ConfigFiles ==
    {AbsentFile} \cup
    [exists : {TRUE},
     missing : SUBSET {RequiredFields[n] : n \in 1..Len(RequiredFields)}]

\* load_config: the exception raised, "ok" when the configuration is returned.
load_config_unchecked(file) ==
    IF ~file.exists THEN "FileNotFoundError" ELSE "ok"

load_config(file) ==
    IF ~file.exists THEN "FileNotFoundError"
    ELSE IF \E n \in 1..Len(RequiredFields) : RequiredFields[n] \in file.missing
    THEN "ValueError"
    ELSE "ok"

\* A configuration with both tiers, NAT and a group.
TwoTierConfig ==
    [cidr |-> NetworkCidr, subnets |-> TwoTierSubnets, nat_enabled |-> TRUE,
     security_groups |-> OneGroup]

\* No second invocation.
NoPeer ==
    [pc |-> "none", loc |-> NoLocals, state |-> EmptyState, result |-> "none",
     exitCode |-> 0, preemptions |-> 0]

\* The process has started, nothing exists in the provider, no state file.
NothingDoneYet ==
    /\ tdStarts = IF args.teardown THEN <<0>> ELSE <<>>
    /\ exitCode = Running
    /\ pc = "main"
    /\ loc = NoLocals
    /\ state = EmptyState
    /\ stateFile = NoFile
    /\ live = NothingLive
    /\ nextId = 1
    /\ calls = <<>>
    /\ result = "none"
    /\ examined = <<>>
    /\ loaded = EmptyState
    /\ tdResult = "none"
    /\ warnings = <<>>

\* The start of the first invocation.  Every command line and configuration
\* file is tried; the content of the file varies where deploy() gets to read it.
Init ==
    /\ args \in DeployLaunches \cup TeardownLaunches
    /\ configFile \in ConfigFiles
    /\ IF ~args.teardown /\ args.config /\ configFile = CompleteFile
       THEN \/ dry_run = FALSE /\ config \in DeployConfigs
            \/ dry_run = TRUE /\ config \in DryRunConfigs
       ELSE dry_run \in BOOLEAN /\ config = TwoTierConfig
    /\ peer = NoPeer
    /\ NothingDoneYet

\* ------------------------------------------------------- the provider fake

\* A provider call either returns or raises ClientError.
Outcomes == {"ok", "fail"}

Log(op, id, arg, res) ==
    calls' = Append(calls, [op |-> op, id |-> id, arg |-> arg, res |-> res])

\* ------------------------------------------------------------ main, __init__

\* sys.exit(code); an uncaught exception ends the interpreter with status 1.
SysExit(code) == pc' = "exited" /\ exitCode' = code

\* success = builder.deploy() or builder.teardown(...);
\* sys.exit(0 if success else 1)
ExitCodeAlwaysZero(success) == 0

ExitCode(success) == IF success THEN 0 ELSE 1

\* main() up to the construction of the builder: teardown mode needs
\* --state-file, deployment mode needs --config.
main ==
    /\ pc = "main"
    /\ IF args.teardown
       THEN IF ~args.state_file
            THEN SysExit(1)
            ELSE pc' = "init" /\ exitCode' = exitCode
       ELSE IF ~args.config
            THEN SysExit(1)
            ELSE pc' = "init" /\ exitCode' = exitCode
    /\ UNCHANGED <<args, configFile, tdStarts, peer, warnings, dry_run, config, loc,
                   state, stateFile, live, nextId, calls, result, examined, loaded,
                   tdResult>>

\* boto3.Session(...) and the clients: NoCredentialsError ends in sys.exit(1).
SessionOutcomes == {"ok", "NoCredentialsError"}

\* AWSNetworkBuilder.__init__ with config_path = args.config, or in teardown
\* mode 'configs/prod-vpc.yaml' when --config was not given: load_config's
\* exceptions are not caught; then the session; then main() calls deploy()
\* or teardown(args.state_file).
builder_init ==
    /\ pc = "init"
    /\ IF load_config(configFile) # "ok"
       THEN SysExit(1)
       ELSE \E session \in SessionOutcomes :
              IF session = "ok"
              THEN /\ pc' = IF args.teardown THEN "teardown" ELSE "deploy"
                   /\ exitCode' = exitCode
              ELSE SysExit(1)
    /\ UNCHANGED <<args, configFile, tdStarts, peer, warnings, dry_run, config, loc,
                   state, stateFile, live, nextId, calls, result, examined, loaded,
                   tdResult>>

\* The command lines of a later teardown invocation, each with the
\* configuration file at its path: no --state-file; no --config and no file
\* at the default path; no --config and a file at the default path; --config
\* naming a file without `region`.
Relaunches ==
    {[args |-> [teardown |-> TRUE, config |-> FALSE, state_file |-> FALSE],
      file |-> AbsentFile],
     [args |-> [teardown |-> TRUE, config |-> FALSE, state_file |-> TRUE],
      file |-> AbsentFile],
     [args |-> [teardown |-> TRUE, config |-> FALSE, state_file |-> TRUE],
      file |-> CompleteFile],
     [args |-> [teardown |-> TRUE, config |-> TRUE, state_file |-> TRUE],
      file |-> [exists |-> TRUE, missing |-> {"region"}]]}

\* A later invocation in teardown mode, once a deployment has ended leaving
\* its state file: a new command line, and the configuration file of its path.
relaunch ==
    /\ pc = "done"
    /\ stateFile.exists
    /\ \E l \in Relaunches : args' = l.args /\ configFile' = l.file
    /\ tdStarts' = Append(tdStarts, Len(calls))
    /\ exitCode' = Running
    /\ pc' = "main"
    /\ UNCHANGED <<peer, warnings, dry_run, config, loc, state, stateFile, live,
                   nextId, calls, result, examined, loaded, tdResult>>

\* ------------------------------------------------------------------ deploy

\* The order of the steps in deploy()'s try block.
StepAfterGroupsEarly(step) ==
    CASE step = "create_vpc" -> "create_internet_gateway"
      [] step = "create_internet_gateway" -> "create_route_tables"
      [] step = "create_route_tables" -> "create_subnets"
      [] step = "create_subnets" -> "apply_security_groups"
      [] step = "apply_security_groups" -> "create_nat_gateway"
      [] step = "create_nat_gateway" -> "export_state"
      [] step = "export_state" -> "return"

StepAfter(step) ==
    CASE step = "create_vpc" -> "create_internet_gateway"
      [] step = "create_internet_gateway" -> "create_route_tables"
      [] step = "create_route_tables" -> "create_subnets"
      [] step = "create_subnets" -> "create_nat_gateway"
      [] step = "create_nat_gateway" -> "apply_security_groups"
      [] step = "apply_security_groups" -> "export_state"
      [] step = "export_state" -> "return"

\* deploy()'s `except Exception`: log and return False, with which main()
\* exits.
ExceptDeployExports ==
    pc' = "export_state" /\ result' = result /\ exitCode' = exitCode

ExceptDeploy == pc' = "done" /\ result' = "False" /\ exitCode' = ExitCode(FALSE)

Goto(p) == pc' = p /\ result' = result /\ exitCode' = exitCode

\* deploy(): the dry-run branch, else the first step of the pipeline.
deployIgnoringDryRun ==
    /\ pc = "deploy"
    /\ Goto("create_vpc")
    /\ UNCHANGED <<launchVars, warnings, dry_run, config, loc, state, stateFile,
                   live, nextId, calls, examined, loaded, tdResult>>

deploy ==
    /\ pc = "deploy"
    /\ Goto(IF dry_run THEN "dry_run_validation" ELSE "create_vpc")
    /\ UNCHANGED <<launchVars, warnings, dry_run, config, loc, state, stateFile,
                   live, nextId, calls, examined, loaded, tdResult>>

\* logger.warning(...)
Warn(w) == warnings' = Append(warnings, w)

\* What the deploy steps leave alone, the record of warnings apart.
DeployKeeps ==
    UNCHANGED <<launchVars, dry_run, config, stateFile, examined, loaded, tdResult>>

DeployFrame == DeployKeeps /\ UNCHANGED warnings

\* A provider call of a deploy step that creates nothing: on success go on to
\* `to`, on ClientError the manager re-raises and deploy() returns False.
DeployCallRollingBack(op, id, arg, to) ==
    /\ \E res \in Outcomes :
        IF res = "ok"
        THEN Log(op, id, arg, res) /\ Goto(to) /\ live' = live
        ELSE /\ calls' = calls \o
                    <<[op |-> op, id |-> id, arg |-> arg, res |-> res],
                      [op |-> "delete_vpc", id |-> state.vpc_id, arg |-> NoId,
                       res |-> "ok"]>>
             /\ live' = [live EXCEPT !.vpc = {}]
             /\ ExceptDeploy
    /\ UNCHANGED <<loc, state, nextId>>
    /\ DeployFrame

DeployCall(op, id, arg, to) ==
    /\ \E res \in Outcomes :
        /\ Log(op, id, arg, res)
        /\ IF res = "ok" THEN Goto(to) ELSE ExceptDeploy
    /\ UNCHANGED <<loc, state, live, nextId>>
    /\ DeployFrame

\* -- _create_vpc / VPCManager.create_vpc

vpc_createReusing ==
    /\ pc = "create_vpc"
    /\ IF live.vpc # {}
       THEN /\ loc' = [loc EXCEPT !.id = CHOOSE v \in live.vpc : TRUE]
            /\ Goto("vpc_wait")
            /\ UNCHANGED <<live, nextId, calls>>
       ELSE \E res \in Outcomes :
              IF res = "ok"
              THEN /\ Log("create_vpc", nextId, NoId, res)
                   /\ live' = [live EXCEPT !.vpc = @ \cup {nextId}]
                   /\ nextId' = nextId + 1
                   /\ loc' = [loc EXCEPT !.id = nextId]
                   /\ Goto("vpc_wait")
              ELSE /\ Log("create_vpc", NoId, NoId, res)
                   /\ ExceptDeploy
                   /\ UNCHANGED <<live, nextId, loc>>
    /\ UNCHANGED state
    /\ DeployFrame

vpc_create ==
    /\ pc = "create_vpc"
    /\ \E res \in Outcomes :
        IF res = "ok"
        THEN /\ Log("create_vpc", nextId, NoId, res)
             /\ live' = [live EXCEPT !.vpc = @ \cup {nextId}]
             /\ nextId' = nextId + 1
             /\ loc' = [loc EXCEPT !.id = nextId]
             /\ Goto("vpc_wait")
        ELSE /\ Log("create_vpc", NoId, NoId, res)
             /\ ExceptDeploy
             /\ UNCHANGED <<live, nextId, loc>>
    /\ UNCHANGED state
    /\ DeployFrame

vpc_wait ==
    /\ pc = "vpc_wait"
    /\ DeployCall("wait_until_available", loc.id, NoId, "vpc_dns_hostnames")

\* enable_dns_hostnames and enable_dns_support default to True.
vpc_dns_hostnames ==
    /\ pc = "vpc_dns_hostnames"
    /\ DeployCall("modify_attribute_hostnames", loc.id, NoId, "vpc_dns_support")

vpc_dns_support ==
    /\ pc = "vpc_dns_support"
    /\ DeployCall("modify_attribute_support", loc.id, NoId, "vpc_tags")

\* create_tags, then create_vpc returns vpc.id and _create_vpc records it.
vpc_tags ==
    /\ pc = "vpc_tags"
    /\ \E res \in Outcomes :
        /\ Log("create_tags", loc.id, NoId, res)
        /\ IF res = "ok"
           THEN /\ state' = [state EXCEPT !.vpc_id = loc.id]
                /\ loc' = NoLocals
                /\ Goto(StepAfter("create_vpc"))
           ELSE /\ ExceptDeploy
                /\ UNCHANGED <<state, loc>>
    /\ UNCHANGED <<live, nextId>>
    /\ DeployFrame

\* -- _create_internet_gateway / GatewayManager.create_internet_gateway

igw_createRecordingEarly ==
    /\ pc = "create_internet_gateway"
    /\ \E res \in Outcomes :
        IF res = "ok"
        THEN /\ Log("create_internet_gateway", nextId, NoId, res)
             /\ live' = [live EXCEPT !.igw = @ \cup {nextId}]
             /\ nextId' = nextId + 1
             /\ loc' = [loc EXCEPT !.id = nextId]
             /\ state' = [state EXCEPT !.gateways.internet_gateway = nextId]
             /\ Goto("igw_tags")
        ELSE /\ Log("create_internet_gateway", NoId, NoId, res)
             /\ ExceptDeploy
             /\ UNCHANGED <<live, nextId, loc, state>>
    /\ DeployFrame

igw_create ==
    /\ pc = "create_internet_gateway"
    /\ \E res \in Outcomes :
        IF res = "ok"
        THEN /\ Log("create_internet_gateway", nextId, NoId, res)
             /\ live' = [live EXCEPT !.igw = @ \cup {nextId}]
             /\ nextId' = nextId + 1
             /\ loc' = [loc EXCEPT !.id = nextId]
             /\ Goto("igw_tags")
        ELSE /\ Log("create_internet_gateway", NoId, NoId, res)
             /\ ExceptDeploy
             /\ UNCHANGED <<live, nextId, loc>>
    /\ UNCHANGED state
    /\ DeployFrame

igw_tags ==
    /\ pc = "igw_tags"
    /\ DeployCall("create_tags", loc.id, NoId, "igw_attach")

\* attach_internet_gateway, then the identifier is returned and recorded.
igw_attach ==
    /\ pc = "igw_attach"
    /\ \E res \in Outcomes :
        /\ Log("attach_internet_gateway", loc.id, state.vpc_id, res)
        /\ IF res = "ok"
           THEN /\ live' = [live EXCEPT !.attached = @ \cup {<<loc.id, state.vpc_id>>}]
                /\ state' = [state EXCEPT !.gateways.internet_gateway = loc.id]
                /\ loc' = NoLocals
                /\ Goto(StepAfter("create_internet_gateway"))
           ELSE /\ ExceptDeploy
                /\ UNCHANGED <<live, state, loc>>
    /\ UNCHANGED nextId
    /\ DeployFrame

\* -- _create_route_tables / VPCManager.create_route_table, add_route

rt_public_create ==
    /\ pc = "create_route_tables"
    /\ \E res \in Outcomes :
        IF res = "ok"
        THEN /\ Log("create_route_table", nextId, state.vpc_id, res)
             /\ live' = [live EXCEPT !.rtb = @ \cup {nextId}]
             /\ nextId' = nextId + 1
             /\ loc' = [loc EXCEPT !.id = nextId]
             /\ Goto("rt_public_tags")
        ELSE /\ Log("create_route_table", NoId, state.vpc_id, res)
             /\ ExceptDeploy
             /\ UNCHANGED <<live, nextId, loc>>
    /\ UNCHANGED state
    /\ DeployFrame

rt_public_tags ==
    /\ pc = "rt_public_tags"
    /\ DeployCall("create_tags", loc.id, NoId, "rt_public_route")

\* add_route(public_rt, 0.0.0.0/0, gateway_id=igw), then
\* state['route_tables']['public'] = public_rt.
rt_public_route ==
    /\ pc = "rt_public_route"
    /\ \E res \in Outcomes :
        /\ Log("create_route", loc.id, state.gateways.internet_gateway, res)
        /\ IF res = "ok"
           THEN /\ state' = [state EXCEPT
                               !.route_tables = DictSet(@, "public", loc.id)]
                /\ loc' = NoLocals
                /\ Goto("rt_private_create")
           ELSE /\ ExceptDeploy
                /\ UNCHANGED <<state, loc>>
    /\ UNCHANGED <<live, nextId>>
    /\ DeployFrame

rt_private_create ==
    /\ pc = "rt_private_create"
    /\ \E res \in Outcomes :
        IF res = "ok"
        THEN /\ Log("create_route_table", nextId, state.vpc_id, res)
             /\ live' = [live EXCEPT !.rtb = @ \cup {nextId}]
             /\ nextId' = nextId + 1
             /\ loc' = [loc EXCEPT !.id = nextId]
             /\ Goto("rt_private_tags")
        ELSE /\ Log("create_route_table", NoId, state.vpc_id, res)
             /\ ExceptDeploy
             /\ UNCHANGED <<live, nextId, loc>>
    /\ UNCHANGED state
    /\ DeployFrame

\* create_tags, then state['route_tables']['private'] = private_rt.
rt_private_tags ==
    /\ pc = "rt_private_tags"
    /\ \E res \in Outcomes :
        /\ Log("create_tags", loc.id, NoId, res)
        /\ IF res = "ok"
           THEN /\ state' = [state EXCEPT
                               !.route_tables = DictSet(@, "private", loc.id)]
                /\ loc' = NoLocals
                /\ Goto(StepAfter("create_route_tables"))
           ELSE /\ ExceptDeploy
                /\ UNCHANGED <<state, loc>>
    /\ UNCHANGED <<live, nextId>>
    /\ DeployFrame

\* -- _create_subnets / VPCManager.create_subnet, associate_route_table

\* The item the loop over config['subnets'] is at.
SubnetConfig == config.subnets[loc.i + 1]

\* `for subnet_config in self.config['subnets']`: the next item, or the end.
subnets_loop ==
    /\ pc = "create_subnets"
    /\ IF loc.i < Len(config.subnets)
       THEN Goto("subnet_create") /\ loc' = loc
       ELSE Goto(StepAfter("create_subnets")) /\ loc' = NoLocals
    /\ UNCHANGED <<state, live, nextId, calls>>
    /\ DeployFrame

subnet_create ==
    /\ pc = "subnet_create"
    /\ \E res \in Outcomes :
        IF res = "ok"
        THEN /\ Log("create_subnet", nextId, state.vpc_id, res)
             /\ live' = [live EXCEPT !.subnet = @ \cup {nextId}]
             /\ nextId' = nextId + 1
             /\ loc' = [loc EXCEPT !.id = nextId]
             /\ Goto(IF SubnetConfig.type = "public"
                     THEN "subnet_map_public" ELSE "subnet_tags")
        ELSE /\ Log("create_subnet", NoId, state.vpc_id, res)
             /\ ExceptDeploy
             /\ UNCHANGED <<live, nextId, loc>>
    /\ UNCHANGED state
    /\ DeployFrame

\* if subnet_type == 'public': modify_subnet_attribute(MapPublicIpOnLaunch).
subnet_map_public ==
    /\ pc = "subnet_map_public"
    /\ DeployCall("modify_subnet_attribute", loc.id, NoId, "subnet_tags")

\* state['subnets'][name] = {id, cidr, az, type}; the loop moves on.
RecordSubnet ==
    /\ state' = [state EXCEPT !.subnets =
                    DictSet(@, SubnetConfig.name,
                        [id |-> loc.id, cidr |-> SubnetConfig.cidr,
                         type |-> SubnetConfig.type])]
    /\ loc' = [loc EXCEPT !.id = NoId, !.i = @ + 1]
    /\ Goto("create_subnets")

\* create_tags (Name, Type); create_subnet returns; then
\* rt_id = self.state['route_tables'].get(type) decides on the association.
subnet_tags ==
    /\ pc = "subnet_tags"
    /\ \E res \in Outcomes :
        /\ Log("create_tags", loc.id, NoId, res)
        /\ IF res = "ok"
           THEN IF DictGet(state.route_tables, SubnetConfig.type, NoId) # NoId
                THEN Goto("subnet_associate") /\ UNCHANGED <<state, loc>>
                ELSE RecordSubnet
           ELSE ExceptDeploy /\ UNCHANGED <<state, loc>>
    /\ UNCHANGED <<live, nextId>>
    /\ DeployFrame

subnet_associate ==
    /\ pc = "subnet_associate"
    /\ \E res \in Outcomes :
        /\ Log("associate_route_table", loc.id,
               DictGet(state.route_tables, SubnetConfig.type, NoId), res)
        /\ IF res = "ok"
           THEN RecordSubnet
           ELSE ExceptDeploy /\ UNCHANGED <<state, loc>>
    /\ UNCHANGED <<live, nextId>>
    /\ DeployFrame

\* -- _create_nat_gateway / GatewayManager.create_nat_gateway

\* The loop over self.state['subnets'].items(): the id of the first entry of
\* type 'public', None when there is none.
RECURSIVE FirstOfType(_, _)
FirstOfType(entries, type) ==
    IF entries = <<>> THEN NoId
    ELSE IF Head(entries).v.type = type THEN Head(entries).v.id
    ELSE FirstOfType(Tail(entries), type)

PublicSubnet(entries) == FirstOfType(entries, "public")

\* NAT creation goes ahead: enabled in the configuration, and a public subnet found.
NatWantedIgnoringSubnets == config.nat_enabled

NatWanted ==
    /\ config.nat_enabled
    /\ PublicSubnet(state.subnets) # NoId

\* `if not public_subnet_id`: a warning, and the step returns normally.
NoPublicSubnetRaises(next) == ExceptDeploy /\ UNCHANGED warnings

NoPublicSubnet(next) == Goto(next) /\ Warn("No public subnet found for NAT Gateway")

\* The two early returns of _create_nat_gateway.
nat_decide ==
    /\ pc = "create_nat_gateway"
    /\ IF NatWanted
       THEN Goto("nat_allocate") /\ UNCHANGED warnings
       ELSE IF config.nat_enabled
       THEN NoPublicSubnet(StepAfter("create_nat_gateway"))
       ELSE Goto(StepAfter("create_nat_gateway")) /\ UNCHANGED warnings
    /\ UNCHANGED <<loc, state, live, nextId, calls>>
    /\ DeployKeeps

nat_allocate ==
    /\ pc = "nat_allocate"
    /\ \E res \in Outcomes :
        IF res = "ok"
        THEN /\ Log("allocate_address", nextId, NoId, res)
             /\ live' = [live EXCEPT !.eip = @ \cup {nextId}]
             /\ nextId' = nextId + 1
             /\ loc' = [loc EXCEPT !.aux = nextId]
             /\ Goto("nat_create")
        ELSE /\ Log("allocate_address", NoId, NoId, res)
             /\ ExceptDeploy
             /\ UNCHANGED <<live, nextId, loc>>
    /\ UNCHANGED state
    /\ DeployFrame

nat_create ==
    /\ pc = "nat_create"
    /\ \E res \in Outcomes :
        IF res = "ok"
        THEN /\ Log("create_nat_gateway", nextId, PublicSubnet(state.subnets), res)
             /\ live' = [live EXCEPT !.nat = @ \cup {nextId},
                                     !.natAddr = @ \cup {<<nextId, loc.aux>>}]
             /\ nextId' = nextId + 1
             /\ loc' = [loc EXCEPT !.id = nextId]
             /\ Goto("nat_tags")
        ELSE /\ Log("create_nat_gateway", NoId, PublicSubnet(state.subnets), res)
             /\ ExceptDeploy
             /\ UNCHANGED <<live, nextId, loc>>
    /\ UNCHANGED state
    /\ DeployFrame

nat_tags ==
    /\ pc = "nat_tags"
    /\ DeployCall("create_tags", loc.id, NoId, "nat_wait")

\* waiter.wait(NatGatewayIds=[nat_gateway_id]); create_nat_gateway returns.
nat_waitTolerant ==
    /\ pc = "nat_wait"
    /\ \E res \in Outcomes :
        Log("wait_nat_gateway_available", loc.id, NoId, res)
    /\ Goto("nat_route")
    /\ UNCHANGED <<loc, state, live, nextId>>
    /\ DeployFrame

nat_wait ==
    /\ pc = "nat_wait"
    /\ DeployCall("wait_nat_gateway_available", loc.id, NoId, "nat_route")

\* add_route(private route table, 0.0.0.0/0, nat_gateway_id=nat_id), then
\* state['gateways']['nat_gateway'] = {id, elastic_ip}.
nat_route ==
    /\ pc = "nat_route"
    /\ \E res \in Outcomes :
        /\ Log("create_route", DictGet(state.route_tables, "private", NoId), loc.id, res)
        /\ IF res = "ok"
           THEN /\ state' = [state EXCEPT !.gateways.nat_gateway =
                                [id |-> loc.id, elastic_ip |-> loc.aux]]
                /\ loc' = NoLocals
                /\ Goto(StepAfter("create_nat_gateway"))
           ELSE ExceptDeploy /\ UNCHANGED <<state, loc>>
    /\ UNCHANGED <<live, nextId>>
    /\ DeployFrame

\* -- _apply_security_groups / SecurityManager

\* The item the loop over sg_config.items() is at, and its rule in turn.
GroupConfig == config.security_groups[loc.j + 1]
RuleConfig == GroupConfig.v[loc.k + 1]

\* `if not sg_config: return`, and `for sg_name, rules in sg_config.items()`.
groups_loop ==
    /\ pc = "apply_security_groups"
    /\ IF loc.j < Len(config.security_groups)
       THEN Goto("sg_create") /\ loc' = loc
       ELSE Goto(StepAfter("apply_security_groups")) /\ loc' = NoLocals
    /\ UNCHANGED <<state, live, nextId, calls>>
    /\ DeployFrame

sg_create ==
    /\ pc = "sg_create"
    /\ \E res \in Outcomes :
        IF res = "ok"
        THEN /\ Log("create_security_group", nextId, state.vpc_id, res)
             /\ live' = [live EXCEPT !.sg = @ \cup {nextId}]
             /\ nextId' = nextId + 1
             /\ loc' = [loc EXCEPT !.id = nextId]
             /\ Goto("sg_tags")
        ELSE /\ Log("create_security_group", NoId, state.vpc_id, res)
             /\ ExceptDeploy
             /\ UNCHANGED <<live, nextId, loc>>
    /\ UNCHANGED state
    /\ DeployFrame

sg_tags ==
    /\ pc = "sg_tags"
    /\ DeployCall("create_tags", loc.id, NoId, "sg_rules")

\* `for rule in rules`; after the last rule state['security_groups'][name] = sg_id.
rules_loop ==
    /\ pc = "sg_rules"
    /\ IF loc.k < Len(GroupConfig.v)
       THEN Goto("sg_ingress") /\ UNCHANGED <<state, loc>>
       ELSE /\ state' = [state EXCEPT !.security_groups =
                            DictSet(@, GroupConfig.k, loc.id)]
            /\ loc' = [loc EXCEPT !.id = NoId, !.j = @ + 1, !.k = 0]
            /\ Goto("apply_security_groups")
    /\ UNCHANGED <<live, nextId, calls>>
    /\ DeployFrame

\* authorize_security_group_ingress answers a rule the group already holds
\* with InvalidPermission.Duplicate.
IngressOutcomes(sg, rule) ==
    IF <<sg, rule>> \in live.rules THEN {"dup", "fail"} ELSE {"ok", "fail"}

\* add_ingress_rule's except branch: a duplicate is logged as a warning and
\* swallowed, any other ClientError is raised.
IngressRaisesOnDuplicate(res) == res \in {"fail", "dup"}

IngressRaises(res) == res = "fail"

sg_ingress ==
    /\ pc = "sg_ingress"
    /\ \E res \in IngressOutcomes(loc.id, RuleConfig) :
        /\ Log("authorize_security_group_ingress", loc.id, NoId, res)
        /\ live' = IF res = "ok"
                   THEN [live EXCEPT !.rules = @ \cup {<<loc.id, RuleConfig>>}]
                   ELSE live
        /\ IF res = "ok"
           THEN Goto("sg_rules") /\ loc' = [loc EXCEPT !.k = @ + 1]
                /\ UNCHANGED warnings
           ELSE IF IngressRaises(res)
           THEN ExceptDeploy /\ loc' = loc /\ UNCHANGED warnings
           ELSE Goto("sg_rules") /\ loc' = [loc EXCEPT !.k = @ + 1]
                /\ Warn("Rule already exists")
    /\ UNCHANGED <<state, nextId>>
    /\ DeployKeeps

\* -- _export_state, and the end of deploy()

\* mkdir, open and json.dump either write the whole state or raise OSError.
ExportOutcomes == {"ok", "fail"}

export_state ==
    /\ pc = "export_state"
    /\ \E res \in ExportOutcomes :
        IF res = "ok"
        THEN /\ stateFile' = [exists |-> TRUE, content |-> state]
             /\ Goto(StepAfter("export_state"))
        ELSE /\ stateFile' = stateFile
             /\ ExceptDeploy
    /\ UNCHANGED <<launchVars, warnings, dry_run, config, loc, state, live, nextId,
                   calls, examined, loaded, tdResult>>

\* "Deployment completed successfully": return True.
deploy_return ==
    /\ pc = "return"
    /\ pc' = "done"
    /\ result' = "True"
    /\ exitCode' = ExitCode(TRUE)
    /\ UNCHANGED <<launchVars, warnings, dry_run, config, loc, state, stateFile,
                   live, nextId, calls, examined, loaded, tdResult>>

\* ----------------------------------------------------------------- dry run

\* _dry_run_validation: the network CIDR, then each subnet's in turn; the first
\* invalid one ends the validation with False.
\* loc.i = 0: the network CIDR is next; loc.i = n: subnet n is next.
DryRunSubject ==
    IF loc.i = 0 THEN config.cidr ELSE config.subnets[loc.i].cidr

dry_run_validation ==
    /\ pc = "dry_run_validation"
    /\ IF loc.i > Len(config.subnets)
       THEN /\ pc' = "done"
            /\ result' = "True"
            /\ exitCode' = ExitCode(TRUE)
            /\ UNCHANGED <<examined, loc>>
       ELSE /\ examined' = Append(examined, DryRunSubject)
            /\ IF validate_cidr(DryRunSubject)
               THEN Goto("dry_run_validation") /\ loc' = [loc EXCEPT !.i = @ + 1]
               ELSE ExceptDeploy /\ loc' = loc
    /\ UNCHANGED <<launchVars, warnings, dry_run, config, state, stateFile, live,
                   nextId, calls, loaded, tdResult>>

\* ---------------------------------------------------------------- teardown

\* The order of the deletions in teardown()'s try block.
TeardownAfterVpcEarly(step) ==
    CASE step = "delete_nat_gateways" -> "delete_internet_gateways"
      [] step = "delete_internet_gateways" -> "delete_vpc"
      [] step = "delete_vpc" -> "delete_subnets"
      [] step = "delete_subnets" -> "delete_route_tables"
      [] step = "delete_route_tables" -> "delete_security_groups"
      [] step = "delete_security_groups" -> "teardown_return"

TeardownAfter(step) ==
    CASE step = "delete_nat_gateways" -> "delete_internet_gateways"
      [] step = "delete_internet_gateways" -> "delete_subnets"
      [] step = "delete_subnets" -> "delete_route_tables"
      [] step = "delete_route_tables" -> "delete_security_groups"
      [] step = "delete_security_groups" -> "delete_vpc"
      [] step = "delete_vpc" -> "teardown_return"

\* teardown()'s `except Exception`: log and return False, with which main()
\* exits.  `next` is where the try block would have gone on.
ExceptTeardownContinues(next) ==
    pc' = next /\ tdResult' = tdResult /\ exitCode' = exitCode

ExceptTeardown(next) ==
    pc' = "torn_down" /\ tdResult' = "False" /\ exitCode' = ExitCode(FALSE)

TdGoto(p) == pc' = p /\ tdResult' = tdResult /\ exitCode' = exitCode

TeardownKeeps ==
    UNCHANGED <<launchVars, dry_run, config, state, stateFile, nextId, result,
                examined, loaded>>

TeardownFrame == TeardownKeeps /\ UNCHANGED warnings

\* teardown(state_file): open and json.load of the state file, outside the
\* try block, so that a missing file is an uncaught exception; then the first
\* deletion step.
teardown ==
    /\ pc = "teardown"
    /\ IF stateFile.exists
       THEN /\ loaded' = stateFile.content
            /\ TdGoto("delete_nat_gateways")
       ELSE /\ loaded' = loaded
            /\ tdResult' = tdResult
            /\ SysExit(1)
    /\ loc' = NoLocals
    /\ UNCHANGED <<args, configFile, tdStarts, peer, warnings, dry_run, config,
                   state, stateFile, live, nextId, calls, result, examined>>

\* -- _delete_nat_gateways / GatewayManager.delete_nat_gateway

\* if 'nat_gateway' in state.get('gateways', {})
nat_present ==
    /\ pc = "delete_nat_gateways"
    /\ TdGoto(IF loaded.gateways.nat_gateway # NoNat
              THEN "nat_describe" ELSE TeardownAfter("delete_nat_gateways"))
    /\ UNCHANGED <<loc, live, calls>>
    /\ TeardownFrame

\* describe_nat_gateways: the AllocationId of the gateway's first address,
\* None when the answer lists no gateway or no address.
AllocationOf(nat) ==
    IF \E p \in live.natAddr : p[1] = nat
    THEN (CHOOSE p \in live.natAddr : p[1] = nat)[2]
    ELSE NoId

nat_describe ==
    /\ pc = "nat_describe"
    /\ \E res \in Outcomes :
        /\ Log("describe_nat_gateways", loaded.gateways.nat_gateway.id, NoId, res)
        /\ IF res = "ok"
           THEN /\ loc' = [loc EXCEPT
                             !.aux = AllocationOf(loaded.gateways.nat_gateway.id)]
                /\ TdGoto("nat_delete")
           ELSE ExceptTeardown("nat_delete") /\ loc' = loc
    /\ UNCHANGED live
    /\ TeardownFrame

\* delete_nat_gateway, the sleep, then `if allocation_id`.
nat_delete ==
    /\ pc = "nat_delete"
    /\ \E res \in Outcomes :
        /\ Log("delete_nat_gateway", loaded.gateways.nat_gateway.id, NoId, res)
        /\ IF res = "ok"
           THEN /\ live' = [live EXCEPT !.nat = @ \ {loaded.gateways.nat_gateway.id}]
                /\ TdGoto(IF loc.aux # NoId
                          THEN "nat_release"
                          ELSE TeardownAfter("delete_nat_gateways"))
                /\ loc' = IF loc.aux # NoId THEN loc ELSE NoLocals
           ELSE /\ ExceptTeardown(TeardownAfter("delete_nat_gateways"))
                /\ UNCHANGED <<live, loc>>
    /\ TeardownFrame

\* release_address has its own try: its ClientError is logged as a warning
\* and delete_nat_gateway returns normally.
ExceptReleaseRaises(next) == ExceptTeardown(next) /\ UNCHANGED warnings

ExceptRelease(next) == TdGoto(next) /\ Warn("Failed to release Elastic IP")

nat_release ==
    /\ pc = "nat_release"
    /\ \E res \in Outcomes :
        /\ Log("release_address", loc.aux, NoId, res)
        /\ live' = IF res = "ok" THEN [live EXCEPT !.eip = @ \ {loc.aux}] ELSE live
        /\ IF res = "ok"
           THEN TdGoto(TeardownAfter("delete_nat_gateways")) /\ UNCHANGED warnings
           ELSE ExceptRelease(TeardownAfter("delete_nat_gateways"))
    /\ loc' = NoLocals
    /\ TeardownKeeps

\* -- _delete_internet_gateways / GatewayManager.delete_internet_gateway

\* if 'internet_gateway' in state.get('gateways', {})
igw_presentAlways ==
    /\ pc = "delete_internet_gateways"
    /\ TdGoto("igw_detach")
    /\ UNCHANGED <<loc, live, calls>>
    /\ TeardownFrame

igw_present ==
    /\ pc = "delete_internet_gateways"
    /\ TdGoto(IF loaded.gateways.internet_gateway # NoId
              THEN "igw_detach" ELSE TeardownAfter("delete_internet_gateways"))
    /\ UNCHANGED <<loc, live, calls>>
    /\ TeardownFrame

igw_detach ==
    /\ pc = "igw_detach"
    /\ \E res \in Outcomes :
        /\ Log("detach_internet_gateway", loaded.gateways.internet_gateway,
               loaded.vpc_id, res)
        /\ IF res = "ok"
           THEN /\ live' = [live EXCEPT !.attached =
                              @ \ {<<loaded.gateways.internet_gateway, loaded.vpc_id>>}]
                /\ TdGoto("igw_delete")
           ELSE ExceptTeardown("igw_delete") /\ live' = live
    /\ loc' = loc
    /\ TeardownFrame

igw_delete ==
    /\ pc = "igw_delete"
    /\ \E res \in Outcomes :
        /\ Log("delete_internet_gateway", loaded.gateways.internet_gateway, NoId, res)
        /\ IF res = "ok"
           THEN /\ live' = [live EXCEPT !.igw = @ \ {loaded.gateways.internet_gateway}]
                /\ TdGoto(TeardownAfter("delete_internet_gateways"))
           ELSE /\ ExceptTeardown(TeardownAfter("delete_internet_gateways"))
                /\ live' = live
    /\ loc' = loc
    /\ TeardownFrame

\* -- _delete_subnets, _delete_route_tables, _delete_security_groups

\* One pass of `for name, value in <mapping>.items()` over the identifiers of
\* the mapping: the delete call for entry loc.i + 1, or the end of the loop.
DeleteLoop(step, ids, op, kind) ==
    /\ pc = step
    /\ IF loc.i < Len(ids)
       THEN \E res \in Outcomes :
              /\ Log(op, ids[loc.i + 1], NoId, res)
              /\ IF res = "ok"
                 THEN /\ live' = [live EXCEPT ![kind] = @ \ {ids[loc.i + 1]}]
                      /\ loc' = [loc EXCEPT !.i = @ + 1]
                      /\ TdGoto(step)
                 ELSE /\ ExceptTeardown(step)
                      /\ UNCHANGED <<live, loc>>
       ELSE /\ TdGoto(TeardownAfter(step))
            /\ loc' = NoLocals
            /\ UNCHANGED <<live, calls>>
    /\ TeardownFrame

\* subnet_data['id'] of each subnets entry, in the mapping's order.
SubnetIdsOf(entries) == [n \in 1..Len(entries) |-> entries[n].v.id]
\* The values of a name -> identifier mapping, in the mapping's order.
ValuesOf(entries) == [n \in 1..Len(entries) |-> entries[n].v]

delete_subnets ==
    DeleteLoop("delete_subnets", SubnetIdsOf(loaded.subnets), "delete_subnet", "subnet")

delete_route_tables ==
    DeleteLoop("delete_route_tables", ValuesOf(loaded.route_tables),
               "delete_route_table", "rtb")

delete_security_groups ==
    DeleteLoop("delete_security_groups", ValuesOf(loaded.security_groups),
               "delete_security_group", "sg")

\* -- _delete_vpc, and the end of teardown()

\* `if vpc_id:` delete_vpc.
delete_vpc ==
    /\ pc = "delete_vpc"
    /\ IF loaded.vpc_id # NoId
       THEN \E res \in Outcomes :
              /\ Log("delete_vpc", loaded.vpc_id, NoId, res)
              /\ IF res = "ok"
                 THEN /\ live' = [live EXCEPT !.vpc = @ \ {loaded.vpc_id}]
                      /\ TdGoto(TeardownAfter("delete_vpc"))
                 ELSE /\ ExceptTeardown(TeardownAfter("delete_vpc"))
                      /\ live' = live
       ELSE /\ TdGoto(TeardownAfter("delete_vpc"))
            /\ UNCHANGED <<live, calls>>
    /\ loc' = loc
    /\ TeardownFrame

\* "Teardown completed successfully": return True.
teardown_returnClearingState ==
    /\ pc = "teardown_return"
    /\ pc' = "torn_down"
    /\ tdResult' = "True"
    /\ exitCode' = ExitCode(TRUE)
    /\ stateFile' = [exists |-> TRUE, content |-> EmptyState]
    /\ UNCHANGED <<launchVars, warnings, dry_run, config, state, nextId, result,
                   examined, loaded, loc, live, calls>>

teardown_return ==
    /\ pc = "teardown_return"
    /\ pc' = "torn_down"
    /\ tdResult' = "True"
    /\ exitCode' = ExitCode(TRUE)
    /\ UNCHANGED <<loc, live, calls>>
    /\ TeardownFrame

\* ----------------------------------------------------------- specification

Next ==
    \/ main \/ builder_init \/ relaunch
    \/ deploy
    \/ vpc_create \/ vpc_wait \/ vpc_dns_hostnames \/ vpc_dns_support \/ vpc_tags
    \/ igw_create \/ igw_tags \/ igw_attach
    \/ rt_public_create \/ rt_public_tags \/ rt_public_route
    \/ rt_private_create \/ rt_private_tags
    \/ subnets_loop \/ subnet_create \/ subnet_map_public \/ subnet_tags
    \/ subnet_associate
    \/ nat_decide \/ nat_allocate \/ nat_create \/ nat_tags \/ nat_wait \/ nat_route
    \/ groups_loop \/ sg_create \/ sg_tags \/ rules_loop \/ sg_ingress
    \/ export_state \/ deploy_return
    \/ dry_run_validation
    \/ teardown
    \/ nat_present \/ nat_describe \/ nat_delete \/ nat_release
    \/ igw_present \/ igw_detach \/ igw_delete
    \/ delete_subnets \/ delete_route_tables \/ delete_security_groups
    \/ delete_vpc \/ teardown_return

Spec == Init /\ [][Next]_vars

\* ------------------------------------------------------ teardown, retried

\* How many times the teardown invocation is repeated.
MaxRetries == 1

\* The deployment whose teardown is retried: --config naming a complete file
\* with both tiers, NAT and a group; with and without --dry-run.
InitRetry ==
    /\ args = [teardown |-> FALSE, config |-> TRUE, state_file |-> FALSE]
    /\ configFile = CompleteFile
    /\ dry_run \in BOOLEAN
    /\ config = TwoTierConfig
    /\ peer = NoPeer
    /\ NothingDoneYet

\* The teardown invocation is run again, with the same command line, after
\* the earlier one has ended: main() starts anew, the state file is what it is.
retry ==
    /\ pc = "torn_down"
    /\ Len(tdStarts) <= MaxRetries
    /\ tdStarts' = Append(tdStarts, Len(calls))
    /\ exitCode' = Running
    /\ pc' = "main"
    /\ tdResult' = "none"
    /\ loaded' = EmptyState
    /\ loc' = NoLocals
    /\ UNCHANGED <<args, configFile, peer, warnings, dry_run, config, state,
                   stateFile, live, nextId, calls, result, examined>>

NextRetry == Next \/ retry

SpecRetry == InitRetry /\ [][NextRetry]_vars

\* ------------------------------------------- teardown of any state file

\* Names for the entries of a state file's mappings.
EntryNames == <<"n1", "n2", "n3", "n4">>

\* State files of the shape _export_state writes, every category present or
\* absent on its own, each identifier named once: with and without vpc_id,
\* internet_gateway, nat_gateway and the two route tables, with any number
\* of subnets and security groups.
SubnetMaps ==
    {[n \in 1..m |-> [k |-> EntryNames[n],
                      v |-> [id |-> 10 + n, cidr |-> SubnetCidr, type |-> "private"]]] :
        m \in 0..MaxSubnets}

GroupMaps ==
    {[n \in 1..m |-> [k |-> EntryNames[n], v |-> 20 + n]] : m \in 0..MaxGroups}

StateFiles ==
    [vpc_id : {NoId, 1},
     subnets : SubnetMaps,
     security_groups : GroupMaps,
     route_tables : {<<>>, <<[k |-> "public", v |-> 3], [k |-> "private", v |-> 4]>>},
     gateways : [internet_gateway : {NoId, 2},
                 nat_gateway : {NoNat, [id |-> 5, elastic_ip |-> 6]}]]

\* The provider holding every resource a state file names.
LiveOf(c) ==
    [vpc |-> {c.vpc_id} \ {NoId},
     igw |-> {c.gateways.internet_gateway} \ {NoId},
     attached |-> IF c.gateways.internet_gateway # NoId /\ c.vpc_id # NoId
                  THEN {<<c.gateways.internet_gateway, c.vpc_id>>} ELSE {},
     rtb |-> {c.route_tables[n].v : n \in 1..Len(c.route_tables)},
     subnet |-> {c.subnets[n].v.id : n \in 1..Len(c.subnets)},
     eip |-> {c.gateways.nat_gateway.elastic_ip} \ {NoId},
     nat |-> {c.gateways.nat_gateway.id} \ {NoId},
     natAddr |-> IF c.gateways.nat_gateway # NoNat
                 THEN {<<c.gateways.nat_gateway.id, c.gateways.nat_gateway.elastic_ip>>}
                 ELSE {},
     sg |-> {c.security_groups[n].v : n \in 1..Len(c.security_groups)},
     rules |-> {}]

\* `--teardown --state-file <a state file>` with a configuration file at the
\* default path; the NAT gateway of the file may have lost its address.
InitTeardown ==
    /\ args = [teardown |-> TRUE, config |-> FALSE, state_file |-> TRUE]
    /\ configFile = CompleteFile
    /\ dry_run = FALSE
    /\ config = TwoTierConfig
    /\ peer = NoPeer
    /\ tdStarts = <<0>>
    /\ exitCode = Running
    /\ pc = "main"
    /\ loc = NoLocals
    /\ state = EmptyState
    /\ \E c \in StateFiles :
        /\ stateFile = [exists |-> TRUE, content |-> c]
        /\ \/ live = LiveOf(c)
           \/ live = [LiveOf(c) EXCEPT !.natAddr = {}]
    /\ nextId = 30
    /\ calls = <<>>
    /\ result = "none"
    /\ examined = <<>>
    /\ loaded = EmptyState
    /\ tdResult = "none"
    /\ warnings = <<>>

NextTeardown ==
    \/ main \/ builder_init
    \/ teardown
    \/ nat_present \/ nat_describe \/ nat_delete \/ nat_release
    \/ igw_present \/ igw_detach \/ igw_delete
    \/ delete_subnets \/ delete_route_tables \/ delete_security_groups
    \/ delete_vpc \/ teardown_return

SpecTeardown == InitTeardown /\ [][NextTeardown]_vars

\* ------------------------------------------------- two deployments at once

\* How many times a running invocation is preempted by the other one.
MaxPreemptions == 1

\* Two invocations `--config <the same complete file>` have been started;
\* one runs, the other is at the start of main().
InitTwo ==
    /\ args = [teardown |-> FALSE, config |-> TRUE, state_file |-> FALSE]
    /\ configFile = CompleteFile
    /\ dry_run = FALSE
    /\ config = TwoTierConfig
    /\ peer = [pc |-> "main", loc |-> NoLocals, state |-> EmptyState,
               result |-> "none", exitCode |-> Running, preemptions |-> 0]
    /\ NothingDoneYet

\* The operating system runs the other invocation: when the running one has
\* exited, or by preempting it between two of its steps.  Each process has
\* its own position, locals, self.state and results; the provider and the
\* file system are shared.
switch ==
    /\ peer # NoPeer
    /\ peer.exitCode = Running
    /\ exitCode # Running \/ peer.preemptions < MaxPreemptions
    /\ pc' = peer.pc
    /\ loc' = peer.loc
    /\ state' = peer.state
    /\ result' = peer.result
    /\ exitCode' = peer.exitCode
    /\ peer' = [pc |-> pc, loc |-> loc, state |-> state, result |-> result,
                exitCode |-> exitCode,
                preemptions |-> IF exitCode = Running
                                THEN peer.preemptions + 1 ELSE peer.preemptions]
    /\ UNCHANGED <<args, configFile, tdStarts, warnings, dry_run, config, stateFile,
                   live, nextId, calls, examined, loaded, tdResult>>

NextTwo ==
    \/ main \/ builder_init
    \/ deploy
    \/ vpc_create \/ vpc_wait \/ vpc_dns_hostnames \/ vpc_dns_support \/ vpc_tags
    \/ igw_create \/ igw_tags \/ igw_attach
    \/ rt_public_create \/ rt_public_tags \/ rt_public_route
    \/ rt_private_create \/ rt_private_tags
    \/ subnets_loop \/ subnet_create \/ subnet_map_public \/ subnet_tags
    \/ subnet_associate
    \/ nat_decide \/ nat_allocate \/ nat_create \/ nat_tags \/ nat_wait \/ nat_route
    \/ groups_loop \/ sg_create \/ sg_tags \/ rules_loop \/ sg_ingress
    \/ export_state \/ deploy_return
    \/ switch

SpecTwo == InitTwo /\ [][NextTwo]_vars

\* ------------------------------------------------- reading the call record

CallIndexes == 1..Len(calls)

CreateOps ==
    {"create_vpc", "create_internet_gateway", "create_route_table", "create_subnet",
     "allocate_address", "create_nat_gateway", "create_security_group"}

TeardownOps ==
    {"describe_nat_gateways", "delete_nat_gateway", "release_address",
     "detach_internet_gateway", "delete_internet_gateway", "delete_subnet",
     "delete_route_table", "delete_security_group", "delete_vpc"}

IsDeployCall(n) == calls[n].op \notin TeardownOps
IsTeardownCall(n) == calls[n].op \in TeardownOps

\* The identifiers the provider returned from successful `op` calls.
Returned(op) == {calls[n].id : n \in {m \in CallIndexes : calls[m].op = op /\ calls[m].res = "ok"}}

\* The calls before call n that satisfy P.
Before(n, P(_)) == {m \in 1..(n - 1) : P(m)}

\* The pipeline step (1..8) a deploy call belongs to: 1 network, 2 internet
\* gateway, 3 public route table and its default route, 4 private route table,
\* 5 subnets, 6 NAT gateway, 7 private default route, 8 security groups.
StepOfCreate(n) ==
    LET e == calls[n]
        IsTable(m) == calls[m].op = "create_route_table"
    IN  CASE e.op = "create_vpc" -> 1
          [] e.op = "create_internet_gateway" -> 2
          [] e.op = "create_route_table" -> IF Before(n, IsTable) = {} THEN 3 ELSE 4
          [] e.op = "create_subnet" -> 5
          [] e.op \in {"allocate_address", "create_nat_gateway"} -> 6
          [] e.op = "create_security_group" -> 8

StepOfCall(n) ==
    LET e == calls[n]
    IN  CASE e.op \in CreateOps -> StepOfCreate(n)
          [] e.op \in {"wait_until_available", "modify_attribute_hostnames",
                       "modify_attribute_support"} -> 1
          [] e.op = "attach_internet_gateway" -> 2
          [] e.op = "create_route" ->
                IF e.arg \in Returned("create_internet_gateway") THEN 3 ELSE 7
          [] e.op \in {"modify_subnet_attribute", "associate_route_table"} -> 5
          [] e.op = "wait_nat_gateway_available" -> 6
          [] e.op = "authorize_security_group_ingress" -> 8
          [] e.op = "create_tags" ->
                StepOfCreate(CHOOSE m \in 1..(n - 1) :
                                calls[m].op \in CreateOps /\ calls[m].id = e.id)

RECURSIVE SumRules(_)
SumRules(groups) ==
    IF groups = <<>> THEN 0 ELSE Len(Head(groups).v) + SumRules(Tail(groups))

\* Step p has run to its end among the calls before call n.
StepComplete(p, n) ==
    LET Ok(m) == calls[m].res = "ok"
        Tagged(step) ==
            {m \in 1..(n - 1) : calls[m].op = "create_tags" /\ Ok(m) /\ StepOfCall(m) = step}
        OkCalls(op) == {m \in 1..(n - 1) : calls[m].op = op /\ Ok(m)}
        Routes(step) ==
            {m \in OkCalls("create_route") : StepOfCall(m) = step}
        Tiered == {k \in 1..Len(config.subnets) :
                      config.subnets[k].type \in {"public", "private"}}
        NatBegun == \E m \in 1..(n - 1) : calls[m].op = "allocate_address"
    IN  CASE p = 1 -> Tagged(1) # {}
          [] p = 2 -> OkCalls("attach_internet_gateway") # {}
          [] p = 3 -> Routes(3) # {}
          [] p = 4 -> Tagged(4) # {}
          [] p = 5 -> /\ Cardinality(Tagged(5)) = Len(config.subnets)
                      /\ Cardinality(OkCalls("associate_route_table")) = Cardinality(Tiered)
          [] p = 6 -> NatBegun => OkCalls("wait_nat_gateway_available") # {}
          [] p = 7 -> NatBegun => Routes(7) # {}
          [] p = 8 -> /\ Cardinality(Tagged(8)) = Len(config.security_groups)
                      /\ Cardinality({m \in 1..(n - 1) :
                            /\ calls[m].op = "authorize_security_group_ingress"
                            /\ calls[m].res # "fail"})
                         = SumRules(config.security_groups)

\* ------------------------------------------------------------------ claims

C2_AnyFailedCallAborts ==
    (~dry_run /\ result # "none"
        /\ \E n \in CallIndexes : IsDeployCall(n) /\ calls[n].res # "ok")
    => (result = "False" /\ ~stateFile.exists)

\* C2, amended: a provider call that fails with anything but the duplicate-rule
\* answer to an ingress rule is the last call of deploy(), which returns
\* failure without writing the state file; the state file is written if and
\* only if deploy() returns success, which it does only with all eight steps
\* run to their end and no call failed but for duplicate-rule answers.
C2_FailureAbortsButDuplicate ==
    ~dry_run =>
        /\ \A n \in CallIndexes :
              (IsDeployCall(n) /\ calls[n].res = "fail") =>
                 /\ \A m \in (n + 1)..Len(calls) : IsTeardownCall(m)
                 /\ result = "False"
                 /\ ~stateFile.exists
        /\ stateFile.exists => (pc = "return" \/ result = "True")
        /\ result = "True" => stateFile.exists
        /\ (stateFile.exists \/ (result = "False" /\ \A n \in CallIndexes : calls[n].res # "fail"))
              => \A p \in 1..8 : StepComplete(p, Len(calls) + 1)

\* A deployment whose second, identical ingress rule was answered with the
\* duplicate-rule error has returned success and written its state file.
C2_Witness ==
    /\ result = "True"
    /\ stateFile.exists
    /\ \E n \in CallIndexes : calls[n].res = "dup"

\* The identifiers whose manager create operation returned: the create call and
\* the calls that follow it inside the manager method all succeeded.
ManagerReturned(op, lastOp) ==
    {id \in Returned(op) :
        \E n \in CallIndexes :
            calls[n].op = lastOp /\ calls[n].id = id /\ calls[n].res = "ok"}

\* The identifiers of the in-memory state, by kind.
StateSubnetIds == {state.subnets[n].v.id : n \in 1..Len(state.subnets)}
StateTableIds == {state.route_tables[n].v : n \in 1..Len(state.route_tables)}
StateGroupIds == {state.security_groups[n].v : n \in 1..Len(state.security_groups)}

\* C3: once deploy() has returned, for every resource kind the in-memory state
\* holds exactly the identifiers whose create operation returned successfully,
\* also when a follow-up call of the same step failed after the create.
C3_StateIffCreated ==
    (~dry_run /\ result # "none") =>
        /\ {state.vpc_id} \ {NoId} = ManagerReturned("create_vpc", "create_tags")
        /\ {state.gateways.internet_gateway} \ {NoId}
              = ManagerReturned("create_internet_gateway", "attach_internet_gateway")
        /\ StateTableIds = ManagerReturned("create_route_table", "create_tags")
        /\ StateSubnetIds = ManagerReturned("create_subnet", "create_tags")
        /\ {state.gateways.nat_gateway.id} \ {NoId}
              = ManagerReturned("create_nat_gateway", "wait_nat_gateway_available")
        /\ StateGroupIds = ManagerReturned("create_security_group", "create_tags")

\* The deletion category (1..6) of a teardown call: 1 NAT gateway, 2 internet
\* gateway, 3 subnets, 4 route tables, 5 security groups, 6 network.
TeardownCategory(n) ==
    LET op == calls[n].op
    IN  CASE op \in {"describe_nat_gateways", "delete_nat_gateway", "release_address"} -> 1
          [] op \in {"detach_internet_gateway", "delete_internet_gateway"} -> 2
          [] op = "delete_subnet" -> 3
          [] op = "delete_route_table" -> 4
          [] op = "delete_security_group" -> 5
          [] op = "delete_vpc" -> 6

\* Every identifier of category c in the loaded state has had its delete call
\* among the calls before call n.
AllDeletesIssued(c, n) ==
    LET Issued(op, id) == \E m \in 1..(n - 1) : calls[m].op = op /\ calls[m].id = id
    IN  CASE c = 1 -> loaded.gateways.nat_gateway # NoNat
                        => Issued("delete_nat_gateway", loaded.gateways.nat_gateway.id)
          [] c = 2 -> loaded.gateways.internet_gateway # NoId
                        => Issued("delete_internet_gateway",
                                  loaded.gateways.internet_gateway)
          [] c = 3 -> \A k \in 1..Len(loaded.subnets) :
                          Issued("delete_subnet", loaded.subnets[k].v.id)
          [] c = 4 -> \A k \in 1..Len(loaded.route_tables) :
                          Issued("delete_route_table", loaded.route_tables[k].v)
          [] c = 5 -> \A k \in 1..Len(loaded.security_groups) :
                          Issued("delete_security_group", loaded.security_groups[k].v)
          [] c = 6 -> loaded.vpc_id # NoId => Issued("delete_vpc", loaded.vpc_id)

\* C4: teardown() issues its delete calls category by category in the order
\* NAT gateway, internet gateway, subnets, route tables, security groups,
\* network: when a call of a category is issued, no call of a later category
\* has been issued and every identifier of every earlier category in the loaded
\* state has had its delete call.  (Stated of the latest call, as C1.)
C4_TeardownOrder ==
    /\ (calls # <<>> /\ IsTeardownCall(Len(calls))) =>
          LET n == Len(calls)
          IN  /\ \A m \in 1..(n - 1) :
                    IsTeardownCall(m) => TeardownCategory(m) <= TeardownCategory(n)
              /\ \A c \in 1..(TeardownCategory(n) - 1) : AllDeletesIssued(c, n)
    /\ tdResult = "True" => \A c \in 1..6 : AllDeletesIssued(c, Len(calls) + 1)

\* A teardown of a state with a NAT gateway, two subnets and a security group
\* has returned success.
C4_Witness ==
    /\ tdResult = "True"
    /\ loaded.gateways.nat_gateway # NoNat
    /\ Len(loaded.subnets) >= 2
    /\ Len(loaded.security_groups) >= 1

\* C5: a teardown call other than the address release that fails is the last
\* call issued, and teardown() returns failure.
C5_TeardownHalts ==
    \A n \in CallIndexes :
        (IsTeardownCall(n) /\ calls[n].res = "fail" /\ calls[n].op # "release_address")
        => (n = Len(calls) /\ tdResult = "False")

\* The delete of the second subnet failed after the first was deleted: teardown
\* has returned failure with the route tables and the network still live.
C5_Witness ==
    /\ tdResult = "False"
    /\ calls[Len(calls)].op = "delete_subnet"
    /\ calls[Len(calls)].res = "fail"
    /\ loc.i = 1
    /\ live.rtb # {}
    /\ live.vpc # {}

\* The NAT step has taken its decision and acted on it: the pipeline is past
\* the decision, or a call of the NAT or of a later step is on record.
NatStepDecided ==
    \/ pc \in {"nat_create", "nat_tags", "nat_wait", "nat_route",
               "apply_security_groups", "sg_create", "sg_tags", "sg_rules",
               "sg_ingress", "export_state", "return"}
    \/ stateFile.exists
    \/ \E n \in CallIndexes :
          calls[n].op \in {"allocate_address", "create_security_group"}

NatAttempted ==
    \E n \in CallIndexes : calls[n].op \in {"allocate_address", "create_nat_gateway"}

StateHasPublicSubnet ==
    \E n \in 1..Len(state.subnets) : state.subnets[n].v.type = "public"

\* C6: in a deploy() run that has reached the NAT step, NAT gateway creation
\* (address allocation, create call) is attempted if and only if the
\* configuration enables NAT and the in-memory state holds a subnet of tier
\* public; the state holds a nat_gateway entry only in that case.
C6_NatIffEnabledAndPublic ==
    ~dry_run =>
        /\ NatStepDecided =>
              (NatAttempted <=> (config.nat_enabled /\ StateHasPublicSubnet))
        /\ NatAttempted => (config.nat_enabled /\ StateHasPublicSubnet)
        /\ state.gateways.nat_gateway # NoNat =>
              (config.nat_enabled /\ StateHasPublicSubnet)

\* A NAT gateway has been created, routed to and recorded.
C6_Witness ==
    /\ state.gateways.nat_gateway # NoNat
    /\ NatAttempted
    /\ pc = "apply_security_groups"

\* A valid IPv4 network block, read off the dotted form: each octet in range,
\* the prefix length in 0..32, and in every octet the bits past the prefix zero.
IsNetworkBlock(c) ==
    /\ c.len \in 0..32
    /\ \A n \in 1..4 :
          /\ c.addr[n] \in 0..255
          /\ LET prefixBits == c.len - 8 * (n - 1)
                 kept == IF prefixBits < 0 THEN 0
                         ELSE IF prefixBits > 8 THEN 8 ELSE prefixBits
             IN  c.addr[n] % (2 ^ (8 - kept)) = 0

\* The values a dry run is to validate, in order.
DryRunSubjects ==
    <<config.cidr>> \o [n \in 1..Len(config.subnets) |-> config.subnets[n].cidr]

\* C7: a dry-run deploy() returns success if and only if the network CIDR and
\* every subnet CIDR is a valid IPv4 network block; it examines the network
\* CIDR first, then the subnets in configuration order, and nothing after the
\* first invalid value.
C7_DryRunIffAllValid ==
    (dry_run /\ pc = "done") =>
        LET Invalid == {n \in 1..Len(DryRunSubjects) : ~IsNetworkBlock(DryRunSubjects[n])}
            last == IF Invalid = {} THEN Len(DryRunSubjects)
                    ELSE CHOOSE n \in Invalid : \A m \in Invalid : n <= m
        IN  /\ result = "True" <=> Invalid = {}
            /\ result = "False" <=> Invalid # {}
            /\ examined = SubSeq(DryRunSubjects, 1, last)

\* A dry run has failed on its first subnet, a block with host bits set, without
\* examining the second subnet.
C7_Witness ==
    /\ dry_run
    /\ pc = "done"
    /\ result = "False"
    /\ Len(config.subnets) = 2
    /\ Len(examined) = 2
    /\ config.subnets[1].cidr = [addr |-> <<10, 0, 1, 5>>, len |-> 24]

\* C8: a dry-run deploy() issues no provider call, leaves the in-memory state
\* as constructed, creates nothing and writes no state file, whatever the
\* validation result.
C8_DryRunTouchesNothing ==
    dry_run =>
        /\ calls = <<>>
        /\ state = EmptyState
        /\ live = NothingLive
        /\ ~stateFile.exists
        /\ nextId = 1

\* A dry run over a network and two subnets has returned success.
C8_Witness ==
    /\ dry_run
    /\ pc = "done"
    /\ result = "True"
    /\ Len(examined) = 3

\* C9: the subnets mapping of the persisted state has exactly the subnet names
\* of the configuration, as many entries as the configuration lists subnets,
\* and carries the identifier the provider returned for each subnet's creation.
C9_SubnetsMatchConfig ==
    stateFile.exists =>
        LET subnets == stateFile.content.subnets
        IN  /\ DictKeys(subnets) = {config.subnets[n].name : n \in 1..Len(config.subnets)}
            /\ Len(subnets) = Len(config.subnets)
            /\ {subnets[n].v.id : n \in 1..Len(subnets)} = Returned("create_subnet")

\* C10: after a successful deploy(), a teardown() of its state file against a
\* provider whose calls all succeed returns success and leaves no resource of
\* the deployment live, the address released after the NAT gateway's delete.
C10_TeardownLeavesNothing ==
    (pc = "torn_down" /\ \A n \in CallIndexes : calls[n].res = "ok") =>
        /\ tdResult = "True"
        /\ live.vpc = {} /\ live.igw = {} /\ live.rtb = {} /\ live.subnet = {}
        /\ live.nat = {} /\ live.eip = {} /\ live.sg = {}
        /\ \A n \in CallIndexes :
              calls[n].op = "release_address" =>
                 \E m \in 1..(n - 1) : calls[m].op = "delete_nat_gateway"

\* C10 for configurations whose subnet names are distinct.
DistinctSubnetNames ==
    \A m, n \in 1..Len(config.subnets) :
        config.subnets[m].name = config.subnets[n].name => m = n

C10_DistinctNamesLeaveNothing == DistinctSubnetNames => C10_TeardownLeavesNothing

\* ------------------------------------------------- C11: duplicate ingress

IsIngressCall(n) == calls[n].op = "authorize_security_group_ingress"

DuplicateAnswers == {n \in CallIndexes : IsIngressCall(n) /\ calls[n].res = "dup"}

DuplicateWarnings ==
    {n \in 1..Len(warnings) : warnings[n] = "Rule already exists"}

\* C11: add_ingress_rule swallows the provider's duplicate-rule answer with one
\* warning per answer and raises every other provider error: a failed
\* authorize call is the last call of a deployment that returned False, while
\* after a duplicate answer the rule loop goes on, so a deployment whose last
\* call was answered "duplicate" and that still returned False had recorded
\* the group (it failed later, in the export).
C11_DuplicateIngressTolerated ==
    /\ Cardinality(DuplicateWarnings) = Cardinality(DuplicateAnswers)
    /\ \A n \in CallIndexes :
        IsIngressCall(n) /\ calls[n].res = "fail" =>
            n = Len(calls) /\ result = "False"
    /\ calls # <<>> /\ Len(calls) \in DuplicateAnswers /\ result = "False" =>
            calls[Len(calls)].id \in StateGroupIds

\* The same rule added twice to one group: accepted, then answered
\* "duplicate"; one warning, and the deployment returned True.
C11_Witness ==
    /\ result = "True"
    /\ Len(warnings) = 1
    /\ \E n \in CallIndexes :
        /\ n > 1
        /\ IsIngressCall(n - 1) /\ calls[n - 1].res = "ok"
        /\ IsIngressCall(n) /\ calls[n].res = "dup"
        /\ calls[n].id = calls[n - 1].id

\* ------------------------------------------- C12: deleting the NAT gateway

ReleaseFailures ==
    {n \in CallIndexes : calls[n].op = "release_address" /\ calls[n].res = "fail"}

ReleaseWarnings ==
    {n \in 1..Len(warnings) : warnings[n] = "Failed to release Elastic IP"}

\* C12: delete_nat_gateway looks the gateway up, deletes it, then releases
\* the address the lookup found: a delete call directly follows a successful
\* lookup of the same gateway, a release call directly follows a successful
\* delete and releases the address bound to that gateway.  A failed lookup or
\* delete is the last call of a teardown that returned False; a failed
\* release only logs a warning, and a teardown whose last call is a failed
\* release has not returned False.
C12_NatDeleteOrder ==
    /\ \A n \in CallIndexes :
        /\ calls[n].op = "delete_nat_gateway" =>
            /\ n > 1
            /\ calls[n - 1].op = "describe_nat_gateways"
            /\ calls[n - 1].res = "ok"
            /\ calls[n - 1].id = calls[n].id
        /\ calls[n].op = "release_address" =>
            /\ n > 2
            /\ calls[n - 1].op = "delete_nat_gateway"
            /\ calls[n - 1].res = "ok"
            /\ calls[n - 2].op = "describe_nat_gateways"
            /\ <<calls[n - 1].id, calls[n].id>> \in live.natAddr
        /\ calls[n].op \in {"describe_nat_gateways", "delete_nat_gateway"}
           /\ calls[n].res = "fail" =>
            n = Len(calls) /\ tdResult = "False"
    /\ Cardinality(ReleaseWarnings) = Cardinality(ReleaseFailures)
    /\ calls # <<>> /\ Len(calls) \in ReleaseFailures => tdResult # "False"

\* The release failed, the internet gateway was detached after it, and
\* teardown returned True.
C12_Witness ==
    /\ tdResult = "True"
    /\ \E n \in ReleaseFailures :
        \E m \in CallIndexes :
            m > n /\ calls[m].op = "detach_internet_gateway" /\ calls[m].res = "ok"

\* ----------------------------------------- C13: what a teardown launch needs

\* teardown(state_file) was entered and read the state file.
TeardownRan == tdResult # "none" \/ pc \in
    {"delete_nat_gateways", "nat_describe", "nat_delete", "nat_release",
     "delete_internet_gateways", "igw_detach", "igw_delete", "delete_subnets",
     "delete_route_tables", "delete_security_groups", "delete_vpc",
     "teardown_return"}

\* C13: a teardown invocation given --state-file naming a readable state file,
\* no --config, and no configuration file at the default path, does not end
\* without having run teardown() on that file.
C13_StateFileSuffices ==
    /\ args.teardown /\ args.state_file /\ stateFile.exists
    /\ ~args.config /\ ~configFile.exists
    /\ exitCode # Running
    => TeardownRan

\* ------------------------------------------- C14: incomplete configuration

\* main() gets to construct the builder: the mode's required argument is there.
BuilderConstructed == IF args.teardown THEN args.state_file ELSE args.config

\* No teardown call is on record and teardown() was not entered.
NothingTornDown ==
    /\ \A n \in CallIndexes : ~IsTeardownCall(n)
    /\ tdResult = "none"
    /\ loaded = EmptyState

\* Nothing was called, created, recorded or written.
NothingDeployed ==
    /\ calls = <<>>
    /\ live = NothingLive
    /\ state = EmptyState
    /\ ~stateFile.exists
    /\ result = "none"

\* C14: an invocation whose configuration file lacks one or more of vpc_name,
\* cidr, region, subnets never gets past the construction of the builder and
\* ends there with a non-zero status: in deployment mode no provider call was
\* issued, nothing is live, the state is the empty record and no state file
\* exists; in teardown mode no deletion was issued.
C14_IncompleteConfigRejected ==
    BuilderConstructed /\ configFile.exists /\ configFile.missing # {} =>
        /\ pc \in {"main", "init", "exited"}
        /\ pc = "exited" => exitCode = 1
        /\ IF args.teardown THEN NothingTornDown ELSE NothingDeployed /\ NothingTornDown

\* A deployment launch on a file without `subnets` ended with status 1.
C14_Witness ==
    /\ ~args.teardown /\ args.config
    /\ configFile.exists /\ configFile.missing = {"subnets"}
    /\ pc = "exited"
    /\ exitCode = 1

\* ------------------------------------------------------ C15: the exit status

\* The return value of the operation main() requested.
Success == IF args.teardown THEN tdResult = "True" ELSE result = "True"

MissingArgument == ~BuilderConstructed

\* C15: the process ends with status 0 exactly when the requested operation
\* returned True, and with status 1 otherwise; an invocation lacking --config
\* in deployment mode, or --state-file in teardown mode, ends with status 1 in
\* main() with no provider call of its own.
C15_ExitCodeIffSuccess ==
    /\ exitCode \in {Running, 0, 1}
    /\ exitCode = 0 <=> Success
    /\ pc \in {"exited", "done", "torn_down"} <=> exitCode # Running
    /\ MissingArgument =>
        /\ pc \in {"main", "exited"}
        /\ pc = "exited" => exitCode = 1
        /\ IF args.teardown THEN NothingTornDown ELSE NothingDeployed

\* A teardown invocation issued its deletions and ended with status 0.
C15_Witness ==
    /\ args.teardown
    /\ exitCode = 0
    /\ \E n \in CallIndexes : IsTeardownCall(n)

\* ------------------------------------------------------ C16: no rollback

\* Every resource a create call returned is live.
AllCreatedLive ==
    /\ live.vpc = Returned("create_vpc")
    /\ live.igw = Returned("create_internet_gateway")
    /\ live.rtb = Returned("create_route_table")
    /\ live.subnet = Returned("create_subnet")
    /\ live.eip = Returned("allocate_address")
    /\ live.nat = Returned("create_nat_gateway")
    /\ live.sg = Returned("create_security_group")

\* C16: during and after a deployment invocation, whatever its outcome, no
\* lookup, delete, detach or release call has been issued and every resource
\* whose create call returned is live; a deployment that returned False left
\* no state file.
C16_DeployNeverRollsBack ==
    ~args.teardown =>
        /\ \A n \in CallIndexes : ~IsTeardownCall(n)
        /\ AllCreatedLive
        /\ result = "False" => ~stateFile.exists

\* A deployment failed after its network, subnets, NAT gateway and a
\* security group were created: all are live and no state file exists.
C16_Witness ==
    /\ result = "False"
    /\ live.vpc # {} /\ live.subnet # {} /\ live.nat # {} /\ live.sg # {}
    /\ AllCreatedLive
    /\ ~stateFile.exists

\* ------------------------------------ C17: NAT enabled, no public subnet

NoFailedCall == \A n \in CallIndexes : calls[n].res # "fail"

\* The NAT step is behind: see NatStepDecided; or a real deployment returned
\* False with no failed call, which only the state export does.
NatStepPassed ==
    \/ NatStepDecided
    \/ ~dry_run /\ result = "False" /\ NoFailedCall

NoPublicWarnings ==
    {n \in 1..Len(warnings) : warnings[n] = "No public subnet found for NAT Gateway"}

\* C17: once the NAT step is behind in a deployment with NAT enabled whose
\* state holds no subnet of type public: the step logged its warning once and
\* issued no call (no address, no gateway, no wait), no route was added to the
\* private route table, neither the state nor the state file has a NAT
\* entry, and the pipeline went on: a deployment that then returned False
\* either has a failed call on record or recorded every security group and
\* failed in the export.
C17_NatSkippedWithoutPublicSubnet ==
    config.nat_enabled /\ ~StateHasPublicSubnet /\ NatStepPassed =>
        /\ Cardinality(NoPublicWarnings) = 1
        /\ \A n \in CallIndexes :
            /\ calls[n].op \notin {"allocate_address", "create_nat_gateway",
                                   "wait_nat_gateway_available"}
            /\ calls[n].op = "create_route" =>
                calls[n].id # DictGet(state.route_tables, "private", NoId)
        /\ state.gateways.nat_gateway = NoNat
        /\ stateFile.exists => stateFile.content.gateways.nat_gateway = NoNat
        /\ result = "False" /\ NoFailedCall =>
            Len(state.security_groups) = Len(config.security_groups)

\* NAT enabled and only a private subnet: the group was created after the
\* NAT step, the state was exported and deploy() returned True.
C17_Witness ==
    /\ config.nat_enabled
    /\ state.subnets # <<>>
    /\ ~StateHasPublicSubnet
    /\ state.security_groups # <<>>
    /\ stateFile.exists
    /\ result = "True"

\* ------------------------------------------- C18: where the NAT gateway goes

\* The position in config['subnets'] of the subnet that create_subnet call n
\* is for: the loop issues one create_subnet per configured subnet, in order.
SubnetPosition(n) == Cardinality({m \in 1..n : calls[m].op = "create_subnet"})

PublicSubnetCreates ==
    {n \in CallIndexes :
        /\ calls[n].op = "create_subnet"
        /\ calls[n].res = "ok"
        /\ config.subnets[SubnetPosition(n)].type = "public"}

\* The identifier of the first subnet of type public that was created.
FirstPublicCreated ==
    IF PublicSubnetCreates = {} THEN NoId
    ELSE calls[CHOOSE n \in PublicSubnetCreates :
                   \A m \in PublicSubnetCreates : n <= m].id

\* The default routes added to the private route table for a NAT gateway.
IsNatRoute(n) ==
    /\ calls[n].op = "create_route"
    /\ calls[n].id = DictGet(state.route_tables, "private", NoId)

\* C18: every create_nat_gateway call names the first subnet of type public
\* in creation order; the route added to the private route table targets the
\* identifier that call returned; and the state has a nat_gateway entry only
\* when that route was added successfully, for the recorded identifier.
C18_NatOnFirstPublicSubnet ==
    /\ \A n \in CallIndexes :
        /\ calls[n].op = "create_nat_gateway" => calls[n].arg = FirstPublicCreated
        /\ IsNatRoute(n) => calls[n].arg \in Returned("create_nat_gateway")
    /\ state.gateways.nat_gateway # NoNat =>
        \E n \in CallIndexes :
            /\ IsNatRoute(n)
            /\ calls[n].res = "ok"
            /\ calls[n].arg = state.gateways.nat_gateway.id

\* With subnet names all distinct the NAT gateway is on the first public subnet.
C18_DistinctNamesFirstPublic == DistinctSubnetNames => C18_NatOnFirstPublicSubnet

\* --------------------------------------- C19: subnets and their route tables

\* The route-table step is behind: a call of a later step is on record, or
\* the state file was written.
RouteTablesStepPassed ==
    \/ stateFile.exists
    \/ \E n \in CallIndexes :
          calls[n].op \in {"create_subnet", "allocate_address", "create_security_group"}

\* The subnet of state entry e was associated with the route table recorded
\* under the entry's type.
AssociatedWithItsTier(e) ==
    \E n \in CallIndexes :
        /\ calls[n].op = "associate_route_table"
        /\ calls[n].res = "ok"
        /\ calls[n].id = e.v.id
        /\ calls[n].arg # NoId
        /\ calls[n].arg = DictGet(state.route_tables, e.v.type, NoId)

\* C19: every subnet recorded by deploy() was associated with the route table
\* recorded under its type; every association names a route table already in
\* the route_tables mapping; and once the route-table step is behind, the
\* mapping has exactly the keys public and private.
C19_SubnetsAssociatedByTier ==
    /\ \A k \in 1..Len(state.subnets) : AssociatedWithItsTier(state.subnets[k])
    /\ \A n \in CallIndexes :
        calls[n].op = "associate_route_table" => calls[n].arg \in StateTableIds
    /\ RouteTablesStepPassed =>
        /\ DictKeys(state.route_tables) = {"public", "private"}
        /\ Len(state.route_tables) = 2

TiersAreLiterals ==
    \A k \in 1..Len(config.subnets) : config.subnets[k].type \in {"public", "private"}

\* With every configured type one of public and private, C19 holds.
C19_TieredSubnetsAssociated == TiersAreLiterals => C19_SubnetsAssociatedByTier

\* ------------------------------------------------- C20: the tier of a subnet

TierTagsOf(subnets) == {subnets[k].v.type : k \in 1..Len(subnets)}

\* C20: in the state of a deployment and in the state file, the type of every
\* subnet entry is public or private.
C20_TierTagsAreLiterals ==
    /\ TierTagsOf(state.subnets) \subseteq {"public", "private"}
    /\ stateFile.exists =>
        TierTagsOf(stateFile.content.subnets) \subseteq {"public", "private"}

\* With every configured type one of public and private, C20 holds.
C20_LiteralTypesStayLiteral == TiersAreLiterals => C20_TierTagsAreLiterals

\* --------------------------------- C21: deleting the internet gateway

\* C21: delete_internet_gateway detaches, then deletes: a delete call
\* directly follows a successful detach of the same gateway, and a failed
\* detach is the last call of a teardown that returned False, so that no
\* delete follows it.
C21_DetachBeforeDelete ==
    \A n \in CallIndexes :
        /\ calls[n].op = "delete_internet_gateway" =>
            /\ n > 1
            /\ calls[n - 1].op = "detach_internet_gateway"
            /\ calls[n - 1].res = "ok"
            /\ calls[n - 1].id = calls[n].id
        /\ calls[n].op = "detach_internet_gateway" /\ calls[n].res = "fail" =>
            /\ n = Len(calls)
            /\ tdResult = "False"

\* The detach failed: teardown returned False, the gateway is live and still
\* attached, and no delete was issued for it.
C21_Witness ==
    /\ calls # <<>>
    /\ calls[Len(calls)].op = "detach_internet_gateway"
    /\ calls[Len(calls)].res = "fail"
    /\ tdResult = "False"
    /\ calls[Len(calls)].id \in live.igw
    /\ \A n \in CallIndexes : calls[n].op # "delete_internet_gateway"

\* ---------------------------- C22: a half-made internet gateway

\* A failed tag or attach call for a gateway that create_internet_gateway
\* returned.
IsFailedGatewayFollowUp(n) ==
    /\ calls[n].op \in {"create_tags", "attach_internet_gateway"}
    /\ calls[n].id \in Returned("create_internet_gateway")
    /\ calls[n].res = "fail"

\* C22: a failed tag or attach call for a created internet gateway is the
\* last call on record: deploy() returned False, the gateway is still live
\* and was neither detached nor deleted, the state has no internet_gateway
\* entry, no route table was created and no state file was written.
C22_GatewayLeftBehind ==
    \A n \in CallIndexes :
        IsFailedGatewayFollowUp(n) =>
            /\ n = Len(calls)
            /\ result = "False"
            /\ calls[n].id \in live.igw
            /\ \A m \in CallIndexes :
                calls[m].op \notin {"detach_internet_gateway",
                                    "delete_internet_gateway", "create_route_table"}
            /\ state.gateways.internet_gateway = NoId
            /\ ~stateFile.exists

\* The attach call failed after the create and the tag call succeeded.
C22_Witness ==
    /\ calls # <<>>
    /\ IsFailedGatewayFollowUp(Len(calls))
    /\ calls[Len(calls)].op = "attach_internet_gateway"
    /\ result = "False"
    /\ live.igw # {}
    /\ live.attached = {}

\* ------------------------------------- C23: a half-made NAT gateway

\* A failed create_nat_gateway call, or a failed tag or wait call for a NAT
\* gateway that was created.
IsFailedNatStep(n) ==
    /\ calls[n].res = "fail"
    /\ \/ calls[n].op = "create_nat_gateway"
       \/ /\ calls[n].op \in {"create_tags", "wait_nat_gateway_available"}
          /\ calls[n].id \in Returned("create_nat_gateway")

\* C23: create_nat_gateway is called directly after a successful
\* allocate_address, and the route to the gateway is added directly after a
\* successful wait for that gateway.  A failed create, tag or wait call is the
\* last call on record: deploy() returned False, every allocated address and
\* created gateway is live with no release or delete call issued, the state
\* has no nat_gateway entry, no route was added to the private route table
\* and no state file was written.
C23_NatLeftBehind ==
    \A n \in CallIndexes :
        /\ calls[n].op = "create_nat_gateway" =>
            /\ n > 1
            /\ calls[n - 1].op = "allocate_address"
            /\ calls[n - 1].res = "ok"
        /\ IsNatRoute(n) =>
            /\ calls[n - 1].op = "wait_nat_gateway_available"
            /\ calls[n - 1].res = "ok"
            /\ calls[n - 1].id = calls[n].arg
        /\ IsFailedNatStep(n) =>
            /\ n = Len(calls)
            /\ result = "False"
            /\ Returned("allocate_address") # {}
            /\ Returned("allocate_address") \subseteq live.eip
            /\ Returned("create_nat_gateway") \subseteq live.nat
            /\ \A m \in CallIndexes :
                /\ calls[m].op \notin {"release_address", "delete_nat_gateway"}
                /\ ~IsNatRoute(m)
            /\ state.gateways.nat_gateway = NoNat
            /\ ~stateFile.exists

\* The wait failed: the address and the gateway are live, deploy() returned
\* False.
C23_Witness ==
    /\ calls # <<>>
    /\ calls[Len(calls)].op = "wait_nat_gateway_available"
    /\ calls[Len(calls)].res = "fail"
    /\ result = "False"
    /\ live.eip # {} /\ live.nat # {}
    /\ state.gateways.nat_gateway = NoNat

\* ------------------------------------------- C24: teardown run again

\* The provider calls of the r-th teardown invocation are those at the
\* positions RunStart(r) + 1 .. RunEnd(r) of the record.
RunStart(r) == tdStarts[r]
RunEnd(r) == IF r < Len(tdStarts) THEN tdStarts[r + 1] ELSE Len(calls)
RunLen(r) == RunEnd(r) - RunStart(r)

ShorterRun(r, q) == IF RunLen(r) <= RunLen(q) THEN RunLen(r) ELSE RunLen(q)

\* Two teardown invocations issue the same calls, as far as both get.
SameCallsAsFarAsBoth(r, q) ==
    \A k \in 1..ShorterRun(r, q) :
        /\ calls[RunStart(r) + k].op = calls[RunStart(q) + k].op
        /\ calls[RunStart(r) + k].id = calls[RunStart(q) + k].id

\* C24: the state file a deployment wrote is never written again: all
\* through the teardown invocations it holds the deployment's state.  So
\* every teardown invocation issues the same calls from the NAT gateway
\* lookup on, as far as it gets, whatever an earlier invocation deleted; an
\* invocation that returned True issued at least the calls of every earlier one.
C24_TeardownKeepsStateFile ==
    /\ stateFile.exists => stateFile.content = state
    /\ \A r \in 1..Len(tdStarts) :
        \A q \in 1..(r - 1) :
            /\ SameCallsAsFarAsBoth(q, r)
            /\ r = Len(tdStarts) /\ tdResult = "True" => RunLen(q) <= RunLen(r)

\* The second teardown invocation has issued the delete call for a subnet
\* that the first one had deleted, and for an internet gateway likewise.
C24_Witness ==
    /\ Len(tdStarts) = 2
    /\ \E n \in (RunStart(2) + 1)..RunEnd(2) :
        \E m \in (RunStart(1) + 1)..RunEnd(1) :
            /\ calls[n].op = "delete_subnet"
            /\ calls[m].op = "delete_subnet"
            /\ calls[m].id = calls[n].id
            /\ calls[m].res = "ok"
            /\ calls[n].id \notin live.subnet

\* ------------------------------------------- C25: two deployments at once

\* Every identifier a state record holds.
IdsOf(st) ==
    ({st.vpc_id, st.gateways.internet_gateway, st.gateways.nat_gateway.id}
        \cup {st.subnets[k].v.id : k \in 1..Len(st.subnets)}
        \cup {st.route_tables[k].v : k \in 1..Len(st.route_tables)}
        \cup {st.security_groups[k].v : k \in 1..Len(st.security_groups)})
    \ {NoId}

LiveIds ==
    live.vpc \cup live.igw \cup live.rtb \cup live.subnet \cup live.nat \cup live.sg

BothDeployed == result = "True" /\ peer.result = "True"

\* The state of the deployment that the state file does not hold.
Unrecorded == IF stateFile.content = state THEN peer.state ELSE state

\* C25: of two deployments of one configuration, run one after the other or
\* interleaved, each creates resources of its own: the identifiers in the two
\* states are disjoint and nothing is deleted.  The state file is the state
\* of one of them, and when both have returned True the resources of the
\* other one, its network among them, are live and absent from the file.
C25_TwoDeploymentsUnguarded ==
    /\ IdsOf(state) \cap IdsOf(peer.state) = {}
    /\ \A n \in CallIndexes : ~IsTeardownCall(n)
    /\ stateFile.exists => stateFile.content \in {state, peer.state}
    /\ BothDeployed =>
        /\ stateFile.exists
        /\ state.vpc_id # NoId /\ peer.state.vpc_id # NoId
        /\ IdsOf(state) \cup IdsOf(peer.state) \subseteq LiveIds
        /\ Unrecorded.vpc_id \in live.vpc
        /\ IdsOf(Unrecorded) \cap IdsOf(stateFile.content) = {}

\* Both deployments returned True after one had preempted the other, and the
\* state file holds the state of the one that is not running now.
C25_Witness ==
    /\ BothDeployed
    /\ peer.preemptions >= 1
    /\ stateFile.content = peer.state
    /\ Cardinality(live.vpc) = 2

\* ------------------------------------- C26: what teardown asks to delete

\* The calls a state file asks for, in teardown's order: for the NAT gateway
\* (lookup, delete, release of the address the provider has for it), the
\* internet gateway (detach, delete), each subnet, route table and security
\* group in the order of its mapping, and the network; nothing for a
\* category the file lacks.
CallsFor(op, ids) == [n \in 1..Len(ids) |-> <<op, ids[n]>>]

ExpectedNatCalls(c) ==
    IF c.gateways.nat_gateway = NoNat THEN <<>>
    ELSE <<<<"describe_nat_gateways", c.gateways.nat_gateway.id>>,
           <<"delete_nat_gateway", c.gateways.nat_gateway.id>>>>
         \o (IF AllocationOf(c.gateways.nat_gateway.id) = NoId THEN <<>>
             ELSE <<<<"release_address", AllocationOf(c.gateways.nat_gateway.id)>>>>)

ExpectedGatewayCalls(c) ==
    IF c.gateways.internet_gateway = NoId THEN <<>>
    ELSE <<<<"detach_internet_gateway", c.gateways.internet_gateway>>,
           <<"delete_internet_gateway", c.gateways.internet_gateway>>>>

ExpectedCalls(c) ==
    ExpectedNatCalls(c)
    \o ExpectedGatewayCalls(c)
    \o CallsFor("delete_subnet", [n \in 1..Len(c.subnets) |-> c.subnets[n].v.id])
    \o CallsFor("delete_route_table",
                [n \in 1..Len(c.route_tables) |-> c.route_tables[n].v])
    \o CallsFor("delete_security_group",
                [n \in 1..Len(c.security_groups) |-> c.security_groups[n].v])
    \o (IF c.vpc_id = NoId THEN <<>> ELSE <<<<"delete_vpc", c.vpc_id>>>>)

IssuedCalls == [n \in 1..Len(calls) |-> <<calls[n].op, calls[n].id>>]

\* C26: the calls teardown() has issued are the first calls of those the
\* state file asks for, in that order, and all of them once it returned
\* True; no call is issued twice, and a failed teardown stopped at a call
\* that failed.
C26_TeardownFollowsStateFile ==
    LET expected == ExpectedCalls(stateFile.content)
    IN  /\ Len(IssuedCalls) <= Len(expected)
        /\ IssuedCalls = SubSeq(expected, 1, Len(IssuedCalls))
        /\ \A n, m \in CallIndexes : n # m => IssuedCalls[n] # IssuedCalls[m]
        /\ tdResult = "True" => IssuedCalls = expected
        /\ tdResult = "False" => calls # <<>> /\ calls[Len(calls)].res = "fail"

\* A state file with no NAT gateway, no internet gateway and no network, but
\* with subnets and security groups: teardown returned True having deleted
\* those.
C26_Witness ==
    /\ tdResult = "True"
    /\ stateFile.content.gateways.nat_gateway = NoNat
    /\ stateFile.content.gateways.internet_gateway = NoId
    /\ stateFile.content.vpc_id = NoId
    /\ stateFile.content.subnets # <<>>
    /\ stateFile.content.security_groups # <<>>
    /\ Len(calls) = Len(stateFile.content.subnets)
                    + Len(stateFile.content.route_tables)
                    + Len(stateFile.content.security_groups)

====
